---- MODULE Spec2Model ----
(***************************************************************************)
(* A model of console-subscriber/examples/dump.rs: a client that connects  *)
(* to a task-introspection service, issues one watch_tasks request and     *)
(* prints every update of the response stream until the stream ends or     *)
(* reports an error.                                                       *)
(*                                                                         *)
(* main is one async task.  It is cut at its suspension points (the three  *)
(* .await expressions) and at the binding of the received item, so pc      *)
(* names the place where main is waiting.  The remote service is the       *)
(* environment: it answers connect and watch_tasks, places items on the    *)
(* response stream and closes it.  Nothing forces the remote to act.       *)
(*                                                                         *)
(* The counter i is a usize; the bound MaxItems keeps it far from 2^64, so *)
(* its overflow is not in the model.                                       *)
(***************************************************************************)
EXTENDS Integers, Sequences, FiniteSets, TLC

VARIABLES
    args,          \* std::env::args(): what is left of the iterator
    target,        \* the address handed to TasksClient::connect
    pc,            \* where main is
    conn,          \* main holds `client`
    sub,           \* main holds `stream`
    i,             \* the counter of line 19
    cur,           \* the item bound by `while let Some(update)`: <<>> or <<item>>
    result,        \* what main returned
    stderr,        \* the lines written to standard error, in order
    exitCode,      \* the exit status of the process, -1 while it runs
    connectCalls,  \* connect attempts the remote has seen
    watchCalls,    \* watch_tasks requests the remote has seen
    connRes,       \* the remote's answer to connect
    watchRes,      \* the remote's answer to watch_tasks
    produced,      \* the items the remote has put on the response stream
    closed,        \* the remote has closed the response stream
    rd             \* number of items main has taken from the stream

vars == <<args, target, pc, conn, sub, i, cur, result, stderr, exitCode,
          connectCalls, watchCalls, connRes, watchRes, produced, closed, rd>>

clientVars == <<args, target, pc, conn, sub, i, cur, result, stderr, exitCode,
                connectCalls, watchCalls, connRes, watchRes, rd>>

----------------------------------------------------------------------------
(* Bounds *)

MaxItems == 3

(* Values *)

DefaultAddr == "http://127.0.0.1:6669"

OtherAddr == "http://10.0.0.7:7000"

ArgLists ==
    { <<>>, <<"dump">>, <<"dump", OtherAddr>>, <<"dump", DefaultAddr>>,
      <<"dump", OtherAddr, "extra">> }

Updates == {"A", "B"}

ConnectFaults == {"transport error"}

RequestFaults == {"status: Unimplemented"}

StreamFaults == {"status: Internal"}

OkItem(u) == [ok |-> TRUE, val |-> u]

ErrItem(e) == [ok |-> FALSE, val |-> e]

Items == {OkItem(u) : u \in Updates} \cup {ErrItem(e) : e \in StreamFaults}

NoResult == [tag |-> "none", kind |-> "", err |-> ""]

OkResult == [tag |-> "Ok", kind |-> "", err |-> ""]

ErrResult(k, e) == [tag |-> "Err", kind |-> k, err |-> e]

----------------------------------------------------------------------------
(* Output lines *)

DefaultLine == <<"using default address (http://127.0.0.1:6669)">>

ConnectingLine(t) == <<"CONNECTING", t>>

UpdateLine(n, u) == <<"UPDATE", n, u>>

StreamErrorLine(e) == <<"update stream error", e>>

TerminatedLine == <<"update stream terminated">>

ErrorLine(e) == <<"Error", e>>

----------------------------------------------------------------------------
Init ==
    /\ args \in ArgLists
    /\ target = ""
    /\ pc = "start"
    /\ conn = FALSE
    /\ sub = FALSE
    /\ i = 0
    /\ cur = <<>>
    /\ result = NoResult
    /\ stderr = <<>>
    /\ exitCode = -1
    /\ connectCalls = 0
    /\ watchCalls = 0
    /\ connRes = "none"
    /\ watchRes = "none"
    /\ produced = <<>>
    /\ closed = FALSE
    /\ rd = 0

(* Iterator::next on args: <<item or nothing, rest>> *)
ArgsNext(a) == IF a = <<>> THEN <<<<>>, <<>>>> ELSE <<<<Head(a)>>, Tail(a)>>

SelectTarget_NoDrop ==
    /\ pc = "start"
    /\ LET n  == ArgsNext(args)
           t  == IF n[1] = <<>> THEN DefaultAddr ELSE n[1][1]
           d  == IF n[1] = <<>> THEN <<DefaultLine>> ELSE <<>>
       IN /\ args' = n[2]
          /\ target' = t
          /\ stderr' = stderr \o d \o <<ConnectingLine(t)>>
    /\ connectCalls' = connectCalls + 1
    /\ pc' = "connecting"
    /\ UNCHANGED <<conn, sub, i, cur, result, exitCode, watchCalls, connRes,
                   watchRes, produced, closed, rd>>

(* lines 6-14: pick the target, announce it, start connecting *)
SelectTarget ==
    /\ pc = "start"
    /\ LET a1 == ArgsNext(args)[2]
           n  == ArgsNext(a1)
           t  == IF n[1] = <<>> THEN DefaultAddr ELSE n[1][1]
           d  == IF n[1] = <<>> THEN <<DefaultLine>> ELSE <<>>
       IN /\ args' = n[2]
          /\ target' = t
          /\ stderr' = stderr \o d \o <<ConnectingLine(t)>>
    /\ connectCalls' = connectCalls + 1
    /\ pc' = "connecting"
    /\ UNCHANGED <<conn, sub, i, cur, result, exitCode, watchCalls, connRes,
                   watchRes, produced, closed, rd>>

(* line 14: connect resolved with a client *)
ConnectOk ==
    /\ pc = "connecting"
    /\ connRes' = "Ok"
    /\ conn' = TRUE
    /\ pc' = "connected"
    /\ UNCHANGED <<args, target, sub, i, cur, result, stderr, exitCode,
                   connectCalls, watchCalls, watchRes, produced, closed, rd>>

ConnectErr_Swallow(e) ==
    /\ pc = "connecting"
    /\ connRes' = "Err"
    /\ pc' = "connected"
    /\ UNCHANGED <<args, target, conn, sub, i, cur, result, stderr, exitCode,
                   connectCalls, watchCalls, watchRes, produced, closed, rd>>

ConnectErr_AsOk(e) ==
    /\ pc = "connecting"
    /\ connRes' = "Err"
    /\ result' = OkResult
    /\ pc' = "returned"
    /\ UNCHANGED <<args, target, conn, sub, i, cur, stderr, exitCode,
                   connectCalls, watchCalls, watchRes, produced, closed, rd>>

(* line 14: connect failed, `?` returns the error from main *)
ConnectErr(e) ==
    /\ pc = "connecting"
    /\ connRes' = "Err"
    /\ result' = ErrResult("ConnectionError", e)
    /\ pc' = "returned"
    /\ UNCHANGED <<args, target, conn, sub, i, cur, stderr, exitCode,
                   connectCalls, watchCalls, watchRes, produced, closed, rd>>

WatchRequest_Twice ==
    /\ pc = "connected"
    /\ watchCalls' = watchCalls + 2
    /\ pc' = "subscribing"
    /\ UNCHANGED <<args, target, conn, sub, i, cur, result, stderr, exitCode,
                   connectCalls, connRes, watchRes, produced, closed, rd>>

(* lines 16-17: build the request and send it *)
WatchRequest ==
    /\ pc = "connected"
    /\ watchCalls' = watchCalls + 1
    /\ pc' = "subscribing"
    /\ UNCHANGED <<args, target, conn, sub, i, cur, result, stderr, exitCode,
                   connectCalls, connRes, watchRes, produced, closed, rd>>

(* lines 17-19: the response arrived, keep its stream, i = 0 *)
WatchOk ==
    /\ pc = "subscribing"
    /\ watchRes' = "Ok"
    /\ sub' = TRUE
    /\ i' = 0
    /\ pc' = "streaming"
    /\ UNCHANGED <<args, target, conn, cur, result, stderr, exitCode,
                   connectCalls, watchCalls, connRes, produced, closed, rd>>

WatchErr_Continue(e) ==
    /\ pc = "subscribing"
    /\ watchRes' = "Err"
    /\ sub' = TRUE
    /\ i' = 0
    /\ pc' = "streaming"
    /\ UNCHANGED <<args, target, conn, cur, result, stderr, exitCode,
                   connectCalls, watchCalls, connRes, produced, closed, rd>>

(* line 17: the request failed, `?` returns the error; client is dropped *)
WatchErr(e) ==
    /\ pc = "subscribing"
    /\ watchRes' = "Err"
    /\ result' = ErrResult("RequestError", e)
    /\ conn' = FALSE
    /\ pc' = "returned"
    /\ UNCHANGED <<args, target, sub, i, cur, stderr, exitCode, connectCalls,
                   watchCalls, connRes, produced, closed, rd>>

(* the remote puts one more item on the response stream *)
RemoteEmit(it) ==
    /\ watchRes = "Ok"
    /\ ~closed
    /\ Len(produced) < MaxItems
    /\ produced' = Append(produced, it)
    /\ UNCHANGED <<clientVars, closed>>

(* the remote ends the response stream *)
RemoteClose ==
    /\ watchRes = "Ok"
    /\ ~closed
    /\ closed' = TRUE
    /\ UNCHANGED <<clientVars, produced>>

StreamNext_Dup ==
    /\ pc = "streaming"
    /\ rd < Len(produced)
    /\ cur' = <<produced[1]>>
    /\ rd' = rd + 1
    /\ pc' = "matching"
    /\ UNCHANGED <<args, target, conn, sub, i, result, stderr, exitCode,
                   connectCalls, watchCalls, connRes, watchRes, produced,
                   closed>>

StreamNext_Prefetch ==
    /\ pc \in {"streaming", "matching"}
    /\ rd < Len(produced)
    /\ cur' = Append(cur, produced[rd + 1])
    /\ rd' = rd + 1
    /\ pc' = "matching"
    /\ UNCHANGED <<args, target, conn, sub, i, result, stderr, exitCode,
                   connectCalls, watchCalls, connRes, watchRes, produced,
                   closed>>

(* line 20: stream.next() resolved with Some(update) *)
StreamNext ==
    /\ pc = "streaming"
    /\ rd < Len(produced)
    /\ cur' = <<produced[rd + 1]>>
    /\ rd' = rd + 1
    /\ pc' = "matching"
    /\ UNCHANGED <<args, target, conn, sub, i, result, stderr, exitCode,
                   connectCalls, watchCalls, connRes, watchRes, produced,
                   closed>>

StreamEnd_Leak ==
    /\ pc = "streaming"
    /\ closed
    /\ rd = Len(produced)
    /\ stderr' = Append(stderr, TerminatedLine)
    /\ result' = OkResult
    /\ pc' = "returned"
    /\ UNCHANGED <<args, target, conn, sub, i, cur, exitCode, connectCalls,
                   watchCalls, connRes, watchRes, produced, closed, rd>>

StreamEnd_Spin ==
    /\ pc = "streaming"
    /\ closed
    /\ rd = Len(produced)
    /\ UNCHANGED vars

StreamEnd_NoWait ==
    /\ pc = "streaming"
    /\ rd = Len(produced)
    /\ stderr' = Append(stderr, TerminatedLine)
    /\ result' = OkResult
    /\ conn' = FALSE
    /\ sub' = FALSE
    /\ pc' = "returned"
    /\ UNCHANGED <<args, target, i, cur, exitCode, connectCalls, watchCalls,
                   connRes, watchRes, produced, closed, rd>>

StreamEnd_Silent ==
    /\ pc = "streaming"
    /\ closed
    /\ rd = Len(produced)
    /\ stderr' = stderr
    /\ result' = OkResult
    /\ conn' = FALSE
    /\ sub' = FALSE
    /\ pc' = "returned"
    /\ UNCHANGED <<args, target, i, cur, exitCode, connectCalls, watchCalls,
                   connRes, watchRes, produced, closed, rd>>

(* lines 20, 33-34: stream.next() resolved with None *)
StreamEnd ==
    /\ pc = "streaming"
    /\ closed
    /\ rd = Len(produced)
    /\ stderr' = Append(stderr, TerminatedLine)
    /\ result' = OkResult
    /\ conn' = FALSE
    /\ sub' = FALSE
    /\ pc' = "returned"
    /\ UNCHANGED <<args, target, i, cur, exitCode, connectCalls, watchCalls,
                   connRes, watchRes, produced, closed, rd>>

UpdateOk_NoIncr ==
    /\ pc = "matching"
    /\ cur[1].ok
    /\ stderr' = Append(stderr, UpdateLine(i, cur[1].val))
    /\ i' = i
    /\ cur' = <<>>
    /\ pc' = "streaming"
    /\ UNCHANGED <<args, target, conn, sub, result, exitCode, connectCalls,
                   watchCalls, connRes, watchRes, produced, closed, rd>>

UpdateOk_ArgDependent ==
    /\ pc = "matching"
    /\ cur[1].ok
    /\ stderr' = Append(stderr, UpdateLine(i + Len(args), cur[1].val))
    /\ i' = i + 1
    /\ cur' = <<>>
    /\ pc' = "streaming"
    /\ UNCHANGED <<args, target, conn, sub, result, exitCode, connectCalls,
                   watchCalls, connRes, watchRes, produced, closed, rd>>

(* lines 22-25: the Ok arm *)
UpdateOk ==
    /\ pc = "matching"
    /\ cur[1].ok
    /\ stderr' = Append(stderr, UpdateLine(i, cur[1].val))
    /\ i' = i + 1
    /\ cur' = <<>>
    /\ pc' = "streaming"
    /\ UNCHANGED <<args, target, conn, sub, result, exitCode, connectCalls,
                   watchCalls, connRes, watchRes, produced, closed, rd>>

UpdateErr_Continue ==
    /\ pc = "matching"
    /\ ~cur[1].ok
    /\ stderr' = Append(stderr, StreamErrorLine(cur[1].val))
    /\ cur' = <<>>
    /\ pc' = "streaming"
    /\ UNCHANGED <<args, target, conn, sub, i, result, exitCode, connectCalls,
                   watchCalls, connRes, watchRes, produced, closed, rd>>

UpdateErr_Count ==
    /\ pc = "matching"
    /\ ~cur[1].ok
    /\ stderr' = Append(stderr, StreamErrorLine(cur[1].val))
    /\ i' = i + 1
    /\ result' = ErrResult("StreamError", cur[1].val)
    /\ cur' = <<>>
    /\ conn' = FALSE
    /\ sub' = FALSE
    /\ pc' = "returned"
    /\ UNCHANGED <<args, target, exitCode, connectCalls, watchCalls, connRes,
                   watchRes, produced, closed, rd>>

(* lines 26-29: the Err arm: print the error and return it *)
UpdateErr ==
    /\ pc = "matching"
    /\ ~cur[1].ok
    /\ stderr' = Append(stderr, StreamErrorLine(cur[1].val))
    /\ result' = ErrResult("StreamError", cur[1].val)
    /\ cur' = <<>>
    /\ conn' = FALSE
    /\ sub' = FALSE
    /\ pc' = "returned"
    /\ UNCHANGED <<args, target, i, exitCode, connectCalls, watchCalls,
                   connRes, watchRes, produced, closed, rd>>

Exit_AlwaysZero ==
    /\ pc = "returned"
    /\ stderr' = IF result.tag = "Err"
                 THEN Append(stderr, ErrorLine(result.err)) ELSE stderr
    /\ exitCode' = 0
    /\ pc' = "exited"
    /\ UNCHANGED <<args, target, conn, sub, i, cur, result, connectCalls,
                   watchCalls, connRes, watchRes, produced, closed, rd>>

Exit_Retry ==
    /\ pc = "returned"
    /\ IF result.tag = "Err"
       THEN /\ pc' = "start"
            /\ UNCHANGED exitCode
       ELSE /\ pc' = "exited"
            /\ exitCode' = 0
    /\ UNCHANGED <<args, target, conn, sub, i, cur, result, stderr,
                   connectCalls, watchCalls, connRes, watchRes, produced,
                   closed, rd>>

Exit_Silent ==
    /\ pc = "returned"
    /\ stderr' = stderr
    /\ exitCode' = IF result.tag = "Err" THEN 1 ELSE 0
    /\ pc' = "exited"
    /\ UNCHANGED <<args, target, conn, sub, i, cur, result, connectCalls,
                   watchCalls, connRes, watchRes, produced, closed, rd>>

(* lines 4-5: main returns Result<(), Box<dyn Error>>: the runtime turns  *)
(* Ok(()) into exit status 0, and Err(e) into the line "Error: {e:?}" on  *)
(* standard error and exit status 1                                       *)
Exit ==
    /\ pc = "returned"
    /\ stderr' = IF result.tag = "Err"
                 THEN Append(stderr, ErrorLine(result.err)) ELSE stderr
    /\ exitCode' = IF result.tag = "Err" THEN 1 ELSE 0
    /\ pc' = "exited"
    /\ UNCHANGED <<args, target, conn, sub, i, cur, result, connectCalls,
                   watchCalls, connRes, watchRes, produced, closed, rd>>

Next ==
    \/ SelectTarget
    \/ ConnectOk
    \/ \E e \in ConnectFaults : ConnectErr(e)
    \/ WatchRequest
    \/ WatchOk
    \/ \E e \in RequestFaults : WatchErr(e)
    \/ \E it \in Items : RemoteEmit(it)
    \/ RemoteClose
    \/ StreamNext
    \/ StreamEnd
    \/ UpdateOk
    \/ UpdateErr
    \/ Exit

Spec == Init /\ [][Next]_vars

(* The task is polled whenever it can make progress, and the remote      *)
(* answers connect and watch_tasks and eventually closes the stream.      *)
FairSpec ==
    /\ Spec
    /\ WF_vars(SelectTarget)
    /\ WF_vars(ConnectOk \/ \E e \in ConnectFaults : ConnectErr(e))
    /\ WF_vars(WatchRequest)
    /\ WF_vars(WatchOk \/ \E e \in RequestFaults : WatchErr(e))
    /\ WF_vars(RemoteClose)
    /\ WF_vars(StreamNext)
    /\ WF_vars(StreamEnd)
    /\ WF_vars(UpdateOk)
    /\ WF_vars(UpdateErr)
    /\ WF_vars(Exit)

----------------------------------------------------------------------------
(* The watcher's lifecycle state, read off main's position *)
State ==
    CASE pc = "start" -> "Idle"
      [] pc = "connecting" -> "Connecting"
      [] pc = "connected" -> "Connected"
      [] pc = "subscribing" -> "Subscribing"
      [] pc \in {"streaming", "matching"} -> "Streaming"
      [] pc \in {"returned", "exited"} /\ result.tag = "Ok" -> "Completed"
      [] OTHER -> "Failed"

(* The sink invocations: the UPDATE lines, in order *)
Reports == SelectSeq(stderr, LAMBDA l : l[1] = "UPDATE")

AllOk(s) == \A k \in 1..Len(s) : s[k].ok

HasErr(s) == \E k \in 1..Len(s) : ~s[k].ok

(* position (1-based) of the first error item of s *)
FirstErr(s) == CHOOSE k \in 1..Len(s) : ~s[k].ok /\ \A j \in 1..(k - 1) : s[j].ok

Finished == pc \in {"returned", "exited"}

TypeOK ==
    /\ pc \in {"start", "connecting", "connected", "subscribing", "streaming",
               "matching", "returned", "exited"}
    /\ i \in 0..MaxItems
    /\ rd \in 0..Len(produced)
    /\ Len(cur) <= 1
    /\ exitCode \in {-1, 0, 1}

----------------------------------------------------------------------------
(* the remote closed the stream and main took every item, all of them Ok *)
NaturalEnd ==
    /\ watchRes = "Ok"
    /\ closed
    /\ rd = Len(produced)
    /\ AllOk(produced)

AllowedEdges ==
    { <<"Idle", "Connecting">>, <<"Connecting", "Connected">>,
      <<"Connecting", "Failed">>, <<"Connected", "Subscribing">>,
      <<"Subscribing", "Streaming">>, <<"Subscribing", "Failed">>,
      <<"Streaming", "Completed">>, <<"Streaming", "Failed">> }

(* the lines of standard error that carry the error e *)
ErrorReports(e) ==
    { k \in 1..Len(stderr) :
        /\ stderr[k][1] \in {"update stream error", "Error"}
        /\ stderr[k][2] = e }

----------------------------------------------------------------------------
(* C1: when the remote has delivered N updates, all successful, and closed *)
(* the stream, a finished run has made exactly N sink invocations, the     *)
(* k-th carrying index k-1, and the watcher is Completed.                  *)
C1_CleanEndReportsAll ==
    (closed /\ AllOk(produced) /\ Finished) =>
        /\ Len(Reports) = Len(produced)
        /\ \A k \in 1..Len(Reports) : Reports[k][2] = k - 1
        /\ State = "Completed"

C1_Witness ==
    /\ pc = "exited"
    /\ closed
    /\ AllOk(produced)
    /\ Len(produced) >= 2
    /\ Len(Reports) >= 2

(* C2: when the first error item of the stream is at position K (from 0), *)
(* main never takes more than K+1 items and never makes more than K sink   *)
(* invocations, it does not go back to waiting for an item once it took    *)
(* the error, and a finished run has made exactly K sink invocations and   *)
(* is Failed, whatever the remote has put on the stream after the error.   *)
C2_StopsAtFirstError ==
    HasErr(produced) =>
        LET K == FirstErr(produced) - 1
        IN /\ rd <= K + 1
           /\ Len(Reports) <= K
           /\ rd = K + 1 => pc \in {"matching", "returned", "exited"}
           /\ Finished =>
                /\ Len(Reports) = K
                /\ rd = K + 1
                /\ State = "Failed"
                /\ result.kind = "StreamError"

C2_Witness ==
    /\ pc = "exited"
    /\ HasErr(produced)
    /\ FirstErr(produced) >= 2
    /\ Len(produced) > FirstErr(produced)
    /\ Len(Reports) = FirstErr(produced) - 1

(* C3: after a failed connect no watch request is ever sent, no item is   *)
(* taken, the sink is not invoked, and the run has ended Failed with a     *)
(* ConnectionError.                                                        *)
C3_ConnectFailure ==
    connRes = "Err" =>
        /\ watchCalls = 0
        /\ watchRes = "none"
        /\ rd = 0
        /\ cur = <<>>
        /\ Reports = <<>>
        /\ Finished
        /\ State = "Failed"
        /\ result.kind = "ConnectionError"

C3_Witness ==
    /\ connRes = "Err"
    /\ pc = "exited"
    /\ connectCalls = 1

(* C4: after a successful connect and a failed watch request no item is   *)
(* taken, the sink is not invoked, and the run has ended Failed with a     *)
(* RequestError.                                                           *)
C4_RequestFailure ==
    (connRes = "Ok" /\ watchRes = "Err") =>
        /\ rd = 0
        /\ cur = <<>>
        /\ Reports = <<>>
        /\ Finished
        /\ State = "Failed"
        /\ result.kind = "RequestError"

C4_Witness ==
    /\ connRes = "Ok"
    /\ watchRes = "Err"
    /\ pc = "exited"
    /\ watchCalls = 1

(* C5: the index always equals the number of sink invocations made so far *)
(* and the k-th invocation carries index k-1; the index changes only by   *)
(* +1, only in the Ok arm, together with one new sink invocation; the      *)
(* report of an error item carries no index.                               *)
C5_IndexCountsReports ==
    /\ [](/\ i = Len(Reports)
          /\ \A k \in 1..Len(Reports) : Reports[k][2] = k - 1
          /\ \A k \in 1..Len(stderr) :
                stderr[k][1] = "update stream error" => Len(stderr[k]) = 2)
    /\ [][/\ i' # i =>
                /\ i' = i + 1
                /\ pc = "matching"
                /\ cur[1].ok
          /\ Len(Reports') # Len(Reports) => i' = i + 1]_vars

C5_Witness ==
    /\ pc = "exited"
    /\ result.kind = "StreamError"
    /\ i = 2
    /\ Len(Reports) = 2

(* C6: the updates handed to the sink are, in order, the first items the  *)
(* remote put on the stream, and the item main holds is the last one it   *)
(* took.                                                                  *)
C6_ReportsArePrefix ==
    /\ Len(Reports) <= Len(produced)
    /\ \A k \in 1..Len(Reports) : produced[k] = OkItem(Reports[k][3])
    /\ cur # <<>> => (rd >= 1 /\ cur[1] = produced[rd] /\ Len(Reports) = rd - 1)

C6_Witness ==
    /\ Len(Reports) >= 2
    /\ Reports[1][3] # Reports[2][3]
    /\ pc = "matching"

(* C7: every change of the watcher's state is one of the edges            *)
(* Idle -> Connecting -> Connected -> Subscribing -> Streaming ->          *)
(* Completed | Failed, with Failed also entered from Connecting and        *)
(* Subscribing.                                                            *)
C7_LifecycleEdges ==
    [][State' # State => <<State, State'>> \in AllowedEdges]_vars

C7_Witness ==
    /\ State = "Completed"
    /\ connectCalls = 1
    /\ watchCalls = 1
    /\ exitCode = 0

(* C8: once the watcher is Completed or Failed it stays in that state and *)
(* makes no further connect, watch request, item receive or sink           *)
(* invocation.                                                             *)
C8_TerminalAbsorbing ==
    [][Finished =>
          /\ Finished'
          /\ State' = State
          /\ result' = result
          /\ Reports' = Reports
          /\ UNCHANGED <<connectCalls, watchCalls, rd, cur, i, conn, sub>>]_vars

C8_Witness ==
    /\ pc = "exited"
    /\ State = "Failed"
    /\ result.kind = "StreamError"
    /\ Len(produced) > rd

(* C9: a terminated process has exit status 0 exactly when the run ended  *)
(* by natural stream end, and a non-zero status after a connection         *)
(* failure, a request failure or a stream error.                           *)
C9_ExitCode ==
    /\ pc # "exited" => exitCode = -1
    /\ pc = "exited" =>
          /\ exitCode \in {0, 1}
          /\ exitCode = 0 <=> NaturalEnd
          /\ (connRes = "Err" \/ watchRes = "Err" \/ result.kind = "StreamError")
                => exitCode # 0

C9_Witness ==
    /\ pc = "exited"
    /\ exitCode = 1
    /\ result.kind = "StreamError"
    /\ Len(Reports) = 1
    /\ closed

(* C10: a stream error is reported on standard error at most once in the  *)
(* run.                                                                    *)
C10_StreamErrorReportedOnce ==
    result.kind = "StreamError" => Cardinality(ErrorReports(result.err)) <= 1

----------------------------------------------------------------------------
(* what the sink receives from a stream s: the Ok items before the first  *)
(* error, numbered from n                                                 *)
RECURSIVE ExpectedReports(_, _)
ExpectedReports(s, n) ==
    IF s = <<>> \/ ~Head(s).ok
    THEN <<>>
    ELSE <<UpdateLine(n, Head(s).val)>> \o ExpectedReports(Tail(s), n + 1)

(* the terminal state that the remote's answers and stream call for *)
ExpectedState ==
    IF connRes = "Ok" /\ watchRes = "Ok" /\ ~HasErr(produced)
    THEN "Completed" ELSE "Failed"

(* C11: a terminated process whose run ended Failed, with any of the three *)
(* error kinds, has written the error as its last line of standard error.  *)
C11_ErrorReportedBeforeExit ==
    (pc = "exited" /\ State = "Failed") =>
        /\ result.kind \in {"ConnectionError", "RequestError", "StreamError"}
        /\ stderr # <<>>
        /\ stderr[Len(stderr)] = ErrorLine(result.err)
        /\ exitCode # 0

C11_Witness ==
    /\ pc = "exited"
    /\ result.kind = "RequestError"
    /\ stderr[Len(stderr)] = ErrorLine(result.err)

(* C12 as stated: every finished run has sent exactly one watch request,  *)
(* and a subscription is held only after that one request.                 *)
C12_ExactlyOneWatchPerRun ==
    /\ Finished => watchCalls = 1
    /\ sub => watchCalls = 1

(* C12 amended: a run sends at most one watch request: none while         *)
(* connecting or after a failed connect, exactly one once it has gone past *)
(* Connected; a subscription is held only after that one request was       *)
(* accepted.                                                               *)
C12_AtMostOneWatch ==
    /\ watchCalls <= 1
    /\ connRes # "Ok" => watchCalls = 0
    /\ (connRes = "Ok" /\ pc # "connected") => watchCalls = 1
    /\ sub => (watchCalls = 1 /\ watchRes = "Ok")

C12_Witness ==
    /\ pc = "exited"
    /\ watchCalls = 1
    /\ State = "Completed"
    /\ Len(Reports) = MaxItems

(* C13: what a finished run has handed to the sink, and its terminal      *)
(* state, are a function of the remote's answers and of the items it put   *)
(* on the stream, so two runs fed the same remote sequence agree.          *)
C13_OutcomeDeterminedByRemote ==
    Finished =>
        /\ Reports = (IF watchRes = "Ok" THEN ExpectedReports(produced, 0)
                      ELSE <<>>)
        /\ State = ExpectedState

C13_Witness ==
    /\ pc = "exited"
    /\ Len(args) = 1
    /\ Len(Reports) >= 1
    /\ HasErr(produced)

(* C14: in Completed and in Failed main holds neither the connection nor  *)
(* the subscription, and it never holds a subscription without the         *)
(* connection.                                                             *)
C14_NoResourceOutlivesWatcher ==
    /\ Finished => (~conn /\ ~sub)
    /\ sub => conn

C14_Witness ==
    /\ pc = "returned"
    /\ State = "Completed"
    /\ ~conn
    /\ ~sub
    /\ rd >= 1

----------------------------------------------------------------------------
(* positions of the lines of standard error that start with the word w *)
LinesOf(w) == { k \in 1..Len(stderr) : stderr[k][1] = w }

(* main waits for the next item and the remote has nothing for it *)
AwaitingItem == pc = "streaming" /\ rd = Len(produced) /\ ~closed

(* C15: when the task is polled whenever it can run and the remote        *)
(* answers connect and the watch request and closes the stream, the run    *)
(* ends, for good, with exactly one of Ok (Completed) and Err (Failed),    *)
(* and never writes both the end-of-stream notice and the stream-error     *)
(* message.                                                                *)
C15_EventuallyTerminal ==
    /\ <>[](/\ pc = "exited"
            /\ State \in {"Completed", "Failed"}
            /\ (State = "Completed") <=> (result.tag = "Ok")
            /\ (State = "Failed") <=> (result.tag = "Err"))
    /\ [](LinesOf(TerminatedLine[1]) = {} \/ LinesOf("update stream error") = {})

C15_Witness ==
    /\ pc = "exited"
    /\ closed
    /\ rd = Len(produced)
    /\ rd >= 1
    /\ ~conn

(* C16: while main waits for an item the remote has not sent, nothing of  *)
(* the client changes; it leaves Connecting only together with the         *)
(* remote's answer to connect, Subscribing only together with the answer   *)
(* to the watch request, and the wait for an item only when an item is     *)
(* there or the stream is closed.  There is no other way out.              *)
C16_NoTimeout ==
    [][/\ AwaitingItem => UNCHANGED clientVars
       /\ (pc = "connecting" /\ pc' # pc) => (connRes = "none" /\ connRes' # "none")
       /\ (pc = "subscribing" /\ pc' # pc) => (watchRes = "none" /\ watchRes' # "none")
       /\ (pc = "streaming" /\ pc' # pc) => (rd < Len(produced) \/ closed)]_vars

C16_Witness ==
    /\ AwaitingItem
    /\ rd >= 1
    /\ Len(Reports) = rd

(* C17: the address given to connect is the first positional argument if  *)
(* there is one and http://127.0.0.1:6669 otherwise; the default notice is *)
(* printed exactly when no argument was given; the CONNECTING line, with   *)
(* that address, is printed exactly once, right after the notice if any,   *)
(* and not later than the connect attempt.                                 *)
C17_TargetSelection ==
    /\ [](pc = "start" => (stderr = <<>> /\ connectCalls = 0))
    /\ [](pc # "start" =>
            /\ connectCalls = 1
            /\ Cardinality(LinesOf("CONNECTING")) = 1
            /\ Cardinality(LinesOf(DefaultLine[1])) <= 1
            /\ stderr[Cardinality(LinesOf(DefaultLine[1])) + 1]
                  = ConnectingLine(target)
            /\ LinesOf(DefaultLine[1]) \subseteq {1})
    /\ [][(pc = "start" /\ pc' # "start") =>
            /\ target' = (IF Len(args) >= 2 THEN args[2]
                          ELSE "http://127.0.0.1:6669")
            /\ (Len(args) < 2) <=> (stderr'[1] = DefaultLine)]_vars

C17_Witness ==
    /\ target = OtherAddr
    /\ args = <<"extra">>
    /\ pc = "connecting"
    /\ stderr = <<ConnectingLine(OtherAddr)>>

(* C18: the end-of-stream notice is on standard error exactly once when   *)
(* the run ended Completed and not at all otherwise; it is then the last   *)
(* line, after every UPDATE line; a Completed run has no error line.       *)
C18_TerminatedNotice ==
    /\ Cardinality(LinesOf(TerminatedLine[1])) =
           (IF Finished /\ State = "Completed" THEN 1 ELSE 0)
    /\ LinesOf(TerminatedLine[1]) # {} => stderr[Len(stderr)] = TerminatedLine
    /\ (connRes = "Err" \/ watchRes = "Err" \/ HasErr(SubSeq(produced, 1, rd)))
           => LinesOf(TerminatedLine[1]) = {}
    /\ State = "Completed" =>
           (LinesOf("update stream error") = {} /\ LinesOf("Error") = {})

C18_Witness ==
    /\ pc = "exited"
    /\ State = "Completed"
    /\ Len(stderr) >= 2
    /\ stderr[Len(stderr)] = TerminatedLine
    /\ stderr[Len(stderr) - 1][1] = "UPDATE"

(* C19: main holds at most one item it has not dealt with; while it waits *)
(* for an item every item taken so far has been reported; it takes an      *)
(* item, or sees the end of the stream, only then.                         *)
C19_OneItemAtATime ==
    /\ [](/\ Len(cur) <= 1
          /\ rd - Len(Reports) <= 1
          /\ pc = "streaming" => (cur = <<>> /\ rd = Len(Reports)))
    /\ [][/\ rd' # rd => (cur = <<>> /\ Len(Reports) = rd)
          /\ (pc = "streaming" /\ Finished') => Len(Reports) = rd]_vars

C19_Witness ==
    /\ pc = "matching"
    /\ ~cur[1].ok
    /\ rd >= 2
    /\ Len(Reports) = rd - 1

====
